---- MODULE Spec2Model ----
(***************************************************************************)
(* Model of ocspd's fault-isolation boundary:                              *)
(*   core/excepthandler.py  ocsp_except_handle, dump_stack_trace,          *)
(*                          delete_ocsp_for_context                        *)
(*   core/taskcontext.py    OCSPTaskContext (last_exception tracking)      *)
(* The handler is modelled for calls that pass a task context.             *)
(***************************************************************************)
EXTENDS Integers, Sequences, FiniteSets, TLC

\* ------------------------------------------------------------------ bounds
\* set_last_exception calls made on the task context
MaxCalls == 8
\* distinct readings of datetime.now() (microsecond resolution)
MaxClock == 1
\* resource-access failures raised for the Task State of one worker
MaxFailures == 7

\* str(exc) of the failures raised in the with-block
Signatures == {"", "a", "b"}

\* ----------------------------------------------------------- Python values
None == [type |-> "NoneType", str |-> "", int |-> 0]
Str(s) == [type |-> "str", str |-> s, int |-> 0]
Num(n) == [type |-> "int", str |-> "", int |-> n]

\* bool(v): None and the empty string are falsy
Truthy(v) == v.type = "str" /\ v.str # ""

\* repr(v): a str is quoted, None gives the text None
PyRepr(v) == IF v.type = "NoneType" THEN "None" ELSE "'" \o v.str \o "'"

\* repr() builds a new str object on every call (its text has at least two
\* characters, so it is never one of the interpreter's shared strings);
\* slot is the position of the operand in the expression being evaluated,
\* both operands are alive at the comparison and so are two objects
NewObject(slot, text) == [addr |-> slot, text |-> text]

\* x is y: object identity
Is(x, y) == x.addr = y.addr

\* ------------------------------------------------------------- Task State
\* OCSPTaskContext.__init__: no exception recorded, counter 0, sched_time
\* defaults to None
NewContext == [last_exception |-> None,
               last_exception_count |-> 0,
               sched_time |-> None]

\* ScheduledTaskContext.reschedule(delay): replaces the pending time
reschedule(self, delay) == [self EXCEPT !.sched_time = Num(delay)]

\* mutant: the first branch forgets to start the counter at 1
set_last_exception_zero(self, exc) ==
    IF ~Truthy(self.last_exception)
          \/ Is(NewObject(1, PyRepr(self.last_exception)),
                NewObject(2, PyRepr(exc)))
    THEN [self EXCEPT !.last_exception = exc, !.last_exception_count = 0]
    ELSE [self EXCEPT !.last_exception_count = @ + 1]

\* OCSPTaskContext.set_last_exception: the context after the call; the
\* value returned is its last_exception_count
set_last_exception(self, exc) ==
    IF ~Truthy(self.last_exception)
          \/ Is(NewObject(1, PyRepr(self.last_exception)),
                NewObject(2, PyRepr(exc)))
    THEN [self EXCEPT !.last_exception = exc, !.last_exception_count = 1]
    ELSE [self EXCEPT !.last_exception_count = @ + 1]

\* ---------------------------------------------------- exception classes
\* core.exceptions: the daemon's own failure classes, each derived
\* directly from Exception
CoreBases ==
    [c \in {"CertFileAccessError", "OCSPBadResponse", "OCSPRenewError",
            "RenewalRequirementMissing", "CertValidationError",
            "CertParsingError"} |-> {"Exception"}]

\* the classes of urllib.error, requests.exceptions and the builtins that
\* the except clauses name or that the with-block can raise
LibraryBases ==
    [c \in {"Exception"} |-> {}]
    @@ [c \in {"OSError", "ValueError"} |-> {"Exception"}]
    @@ [c \in {"urllib.error.URLError",
               "requests.RequestException"} |-> {"OSError"}]
    @@ [c \in {"urllib.error.HTTPError"} |-> {"urllib.error.URLError"}]
    @@ [c \in {"requests.Timeout", "requests.ConnectionError",
               "requests.TooManyRedirects", "requests.HTTPError"}
          |-> {"requests.RequestException"}]
    @@ [c \in {"requests.ConnectTimeout"}
          |-> {"requests.ConnectionError", "requests.Timeout"}]
    @@ [c \in {"requests.ReadTimeout"} |-> {"requests.Timeout"}]

Bases == CoreBases @@ LibraryBases

Classes == DOMAIN Bases

RECURSIVE IsSubclass(_, _)
\* issubclass(cls, base)
IsSubclass(cls, base) ==
    cls = base \/ \E b \in Bases[cls] : IsSubclass(b, base)

\* what the with-block can raise
Raisable == Classes \ {"Exception"}

\* ------------------------------------------------------------ log records
\* a %-format string as the conversion characters that follow its % signs
\* and the number of arguments passed with it; the record renders when
\* every conversion is %s and there is one argument per conversion
Renders(convs, nargs) ==
    Len(convs) = nargs /\ \A i \in 1..Len(convs) : convs[i] = "s"

\* one record handed to the root logger
Record(level, text, convs, nargs) ==
    [level |-> level, text |-> text, rendered |-> Renders(convs, nargs)]

\* what one run of a handler did: the context it leaves, the records it
\* logged, the delays it passed to ctx.reschedule, and the class of the
\* exception it lets out ("" when it returns normally)
Effect(self, log, reschedules, propagates) ==
    [ctx |-> self, log |-> log, reschedules |-> reschedules,
     propagates |-> propagates]

\* ------------------------------------------------- ocsp_except_handle
\* mutant: the give-up threshold is off by one
except_CertFileAccessError_late(self, exc) ==
    LET after == set_last_exception(self, Str(exc.msg))
        err_count == after.last_exception_count
    IN  IF err_count < 4
        THEN Effect(reschedule(after, 60 * err_count),
                    <<Record("error", "exc", <<>>, 0)>>,
                    <<60 * err_count>>, "")
        ELSE IF err_count < 8
        THEN Effect(reschedule(after, err_count * 3600),
                    <<>>, <<err_count * 3600>>, "")
        ELSE Effect(after,
                    <<Record("critical", "exc, giving up..", <<>>, 0)>>,
                    <<>>, "")

\* mutant: the minutes-scale delay is computed from the count before the
\* increment, so the first retry is scheduled 0 seconds ahead
except_CertFileAccessError_from_zero(self, exc) ==
    LET after == set_last_exception(self, Str(exc.msg))
        err_count == after.last_exception_count
    IN  IF err_count < 4
        THEN Effect(reschedule(after, 60 * (err_count - 1)),
                    <<Record("error", "exc", <<>>, 0)>>,
                    <<60 * (err_count - 1)>>, "")
        ELSE IF err_count < 7
        THEN Effect(reschedule(after, err_count * 3600),
                    <<>>, <<err_count * 3600>>, "")
        ELSE Effect(after,
                    <<Record("critical", "exc, giving up..", <<>>, 0)>>,
                    <<>>, "")

\* except CertFileAccessError as exc: escalating backoff driven by the
\* count that set_last_exception(str(exc)) returns
except_CertFileAccessError(self, exc) ==
    LET after == set_last_exception(self, Str(exc.msg))
        err_count == after.last_exception_count
    IN  IF err_count < 4
        THEN Effect(reschedule(after, 60 * err_count),
                    <<Record("error", "exc", <<>>, 0)>>,
                    <<60 * err_count>>, "")
        ELSE IF err_count < 7
        THEN Effect(reschedule(after, err_count * 3600),
                    <<>>, <<err_count * 3600>>, "")
        ELSE Effect(after,
                    <<Record("critical", "exc, giving up..", <<>>, 0)>>,
                    <<>>, "")

\* the except clauses in source order. catches: the classes the clause
\* names; binds: the name after "as"; body: what the clause runs; for a
\* clause that only logs, level/text/convs/args describe the LOG call and
\* args lists the local names its arguments read
ExceptClauses == <<
    [catches |-> {"CertFileAccessError"}, binds |-> "exc",
     body |-> "backoff", level |-> "", text |-> "",
     convs |-> <<>>, args |-> <<>>],
    [catches |-> {"OCSPBadResponse"}, binds |-> "exc",
     body |-> "log", level |-> "error", text |-> "exc",
     convs |-> <<>>, args |-> <<>>],
    [catches |-> {"OCSPRenewError"}, binds |-> "exc",
     body |-> "log", level |-> "critical", text |-> "exc",
     convs |-> <<>>, args |-> <<>>],
    [catches |-> {"RenewalRequirementMissing", "CertValidationError",
                  "CertParsingError"}, binds |-> "exc",
     body |-> "log", level |-> "critical", text |-> "exc",
     convs |-> <<>>, args |-> <<>>],
    [catches |-> {"urllib.error.URLError"}, binds |-> "err",
     body |-> "log", level |-> "error",
     text |-> "Connection problem: %s",
     convs |-> <<"s">>, args |-> <<"err">>],
    [catches |-> {"requests.Timeout", "requests.ConnectTimeout",
                  "requests.ReadTimeout"}, binds |-> "err",
     body |-> "log", level |-> "warning",
     text |-> "Timeout error for %s: %s",
     convs |-> <<"s", "s">>, args |-> <<"ctx", "exc">>],
    [catches |-> {"requests.TooManyRedirects"}, binds |-> "err",
     body |-> "log", level |-> "warning",
     text |-> "Too many redirects for %s: %s",
     convs |-> <<"s", "s">>, args |-> <<"ctx", "exc">>],
    [catches |-> {"requests.HTTPError"}, binds |-> "exc",
     body |-> "log", level |-> "warning",
     text |-> "Received bad HTTP status code \\%\\s from OCSP server \\%\\s for  %s: %s",
     convs |-> <<"\\", "\\", "s", "s">>, args |-> <<"ctx", "exc">>],
    [catches |-> {"requests.ConnectionError",
                  "requests.RequestException"}, binds |-> "err",
     body |-> "log", level |-> "warning",
     text |-> "Connection error for %s: %s",
     convs |-> <<"s", "s">>, args |-> <<"ctx", "err">>],
    [catches |-> {"Exception"}, binds |-> "exc",
     body |-> "dump", level |-> "", text |-> "",
     convs |-> <<>>, args |-> <<>>] >>

\* mutant: the generic requests clause (the 9th) is tried before the
\* clauses of the more specific requests failures
FirstMatch_generic_first(cls) ==
    LET hits == {i \in 1..Len(ExceptClauses) :
                    \E c \in ExceptClauses[i].catches : IsSubclass(cls, c)}
    IN  IF hits = {} THEN 0
        ELSE IF 9 \in hits THEN 9
        ELSE CHOOSE i \in hits : \A j \in hits : i <= j

\* the first clause, in source order, that names a class of which cls is
\* a subclass; 0 when no clause does
FirstMatch(cls) ==
    LET hits == {i \in 1..Len(ExceptClauses) :
                    \E c \in ExceptClauses[i].catches : IsSubclass(cls, c)}
    IN  IF hits = {} THEN 0
        ELSE CHOOSE i \in hits : \A j \in hits : i <= j

DispatchTable == [cls \in Classes |-> FirstMatch(cls)]

\* the clause that handles an exception of class cls
Dispatch(cls) == DispatchTable[cls]

\* the local names bound while the clause runs: the parameter ctx and the
\* name after "as" (exc and err are locals of the function, so the one
\* the clause does not bind has no value)
Bound(clause) == {"ctx", clause.binds}

\* mutant: the clause reschedules the task an hour later
LogClause_reschedules(self, clause) ==
    IF \E i \in 1..Len(clause.args) : clause.args[i] \notin Bound(clause)
    THEN Effect(self, <<>>, <<>>, "UnboundLocalError")
    ELSE Effect(reschedule(self, 3600),
                <<Record(clause.level, clause.text, clause.convs,
                         Len(clause.args))>>,
                <<3600>>, "")

\* a clause whose body is one LOG call: evaluating an argument that reads
\* an unbound local raises UnboundLocalError before the call is made
LogClause(self, clause) ==
    IF \E i \in 1..Len(clause.args) : clause.args[i] \notin Bound(clause)
    THEN Effect(self, <<>>, <<>>, "UnboundLocalError")
    ELSE Effect(self,
                <<Record(clause.level, clause.text, clause.convs,
                         Len(clause.args))>>,
                <<>>, "")

\* ----------------------------------------------------- dump_stack_trace
\* mutant: the format keeps the date only, every reading of one day
\* gives the same name
STACK_TRACE_FILENAME_date_only(now) ==
    "cwd/ocspd_exception" \o ToString(now \div 1000000) \o ".trace"

\* STACK_TRACE_FILENAME.format(datetime.datetime.now()), joined to the
\* working directory: the name is a function of the clock reading alone
STACK_TRACE_FILENAME(now) ==
    "cwd/ocspd_exception" \o ToString(now) \o ".trace"

\* how the scoped write of the trace can end: both calls succeed, open()
\* raises, or the write (or the flush at close) raises after open()
\* created the file
WriteOutcomes == {"written", "open raises OSError", "write raises OSError"}

\* mutant: the except clause around the write is missing, the error of a
\* failed write escapes unlogged
dump_stack_trace_uncaught(files, now, io) ==
    LET trace_file == STACK_TRACE_FILENAME(now)
    IN  IF io = "written"
        THEN [files |-> (trace_file :> "traceback") @@ files,
              log |-> <<Record("critical", "A stack trace has been saved in %s",
                               <<"s", "s", "s">>, 3)>>,
              trace_file |-> trace_file, open_handles |-> {},
              propagates |-> ""]
        ELSE [files |-> IF io = "open raises OSError" THEN files
                        ELSE (trace_file :> "") @@ files,
              log |-> <<>>,
              trace_file |-> trace_file, open_handles |-> {},
              propagates |-> "OSError"]

\* mutant: the file is opened without the with statement and closed only
\* after a successful write, a failed write leaves the handle open
dump_stack_trace_leaks(files, now, io) ==
    LET trace_file == STACK_TRACE_FILENAME(now)
    IN  IF io = "written"
        THEN [files |-> (trace_file :> "traceback") @@ files,
              log |-> <<Record("critical", "A stack trace has been saved in %s",
                               <<"s", "s", "s">>, 3)>>,
              trace_file |-> trace_file, open_handles |-> {},
              propagates |-> ""]
        ELSE [files |-> IF io = "open raises OSError" THEN files
                        ELSE (trace_file :> "") @@ files,
              log |-> <<Record("critical",
                               "Couldn't dump stack trace to: %s reason: %s",
                               <<"s", "s", "s", "s">>, 4)>>,
              trace_file |-> trace_file,
              open_handles |-> IF io = "open raises OSError" THEN {}
                               ELSE {trace_file},
              propagates |-> ""]

\* dump_stack_trace(ctx, exc): files maps the names of the trace files in
\* the working directory to their content. open(trace_file, "w") creates
\* or truncates the file, print_exc fills it, the with statement closes
\* it on every way out (open_handles: the handles still open at return);
\* IOError/OSError from any of them is caught and logged
dump_stack_trace(files, now, io) ==
    LET trace_file == STACK_TRACE_FILENAME(now)
    IN  IF io = "written"
        THEN [files |-> (trace_file :> "traceback") @@ files,
              log |-> <<Record("critical", "A stack trace has been saved in %s",
                               <<"s", "s", "s">>, 3)>>,
              trace_file |-> trace_file, open_handles |-> {},
              propagates |-> ""]
        ELSE [files |-> IF io = "open raises OSError" THEN files
                        ELSE (trace_file :> "") @@ files,
              log |-> <<Record("critical",
                               "Couldn't dump stack trace to: %s reason: %s",
                               <<"s", "s", "s", "s">>, 4)>>,
              trace_file |-> trace_file, open_handles |-> {},
              propagates |-> ""]

\* ---------------------------------------------- delete_ocsp_for_context
\* how os.remove("<model>.ocsp") can end: the file is removed, it is not
\* there, or it cannot be removed (no permission, a directory)
RemoveOutcomes == {"removed", "FileNotFoundError", "PermissionError"}

\* mutant: the failed removal is reported as a warning
delete_ocsp_for_context_warns(remove) ==
    IF remove = "removed"
    THEN [log |-> <<Record("info", "Deleting any OCSP staple", <<"s">>, 1)>>,
          propagates |-> ""]
    ELSE [log |-> <<Record("info", "Deleting any OCSP staple", <<"s">>, 1),
                    Record("warning", "Can't delete OCSP staple %s",
                           <<"s">>, 1)>>,
          propagates |-> ""]

\* delete_ocsp_for_context(ctx): LOG.info, then os.remove; the OSError of
\* a missing or unremovable file (IOError is OSError) is caught and logged
\* at debug
delete_ocsp_for_context(remove) ==
    IF remove = "removed"
    THEN [log |-> <<Record("info", "Deleting any OCSP staple", <<"s">>, 1)>>,
          propagates |-> ""]
    ELSE [log |-> <<Record("info", "Deleting any OCSP staple", <<"s">>, 1),
                    Record("debug", "Can't delete OCSP staple %s",
                           <<"s">>, 1)>>,
          propagates |-> ""]

\* --------------------------------------------------- subject and workers
\* the certificate model a Task State is created for (ctx.model); the
\* handler reads it and never assigns to it
CertModel == [filename |-> "cert.pem"]

\* no Task State has been dropped yet
NoPrevious == [dropped |-> FALSE, gave_up |-> FALSE, unclassified |-> FALSE]

\* the scheduler's workers; worker w runs the handler on Task State w
Workers == {1, 2}

\* a worker between two tasks: its Task State as constructed, the handler's
\* locals (exc, err_count) unset, no delay passed to reschedule yet;
\* alone is what the same failures give when no other worker runs
IdleWorker ==
    [ctx |-> NewContext, pc |-> "idle", exc |-> None, err_count |-> 0,
     rescheduled |-> <<>>, failures |-> 0,
     alone |-> [ctx |-> NewContext, rescheduled |-> <<>>]]

\* mutant: last_exception_count is a class attribute updated through the
\* class, one cell shared by every Task State
Owner_class(self, attr) ==
    IF attr = "last_exception_count" THEN 1 ELSE self

\* the object that holds attribute attr of Task State self: __init__ and
\* set_last_exception assign through self, so each instance holds its own
Owner(self, attr) == self

\* self.attr read, and self.attr = value, on the Task States of heap
GetAttr(heap, self, attr) == heap[Owner(self, attr)].ctx[attr]
SetAttr(heap, self, attr, value) ==
    [heap EXCEPT ![Owner(self, attr)].ctx[attr] = value]

\* ------------------------------------------------------------------ state
VARIABLES
    ctx,          \* the OCSPTaskContext: last_exception, last_exception_count, sched_time
    rescheduled,  \* every delay passed to ctx.reschedule, in call order
    emitted,      \* the log records of the latest operation, in order
    call,         \* the latest operation: its inputs and how it ended
    trace_files,  \* trace files in the working directory: name -> content
    clock,        \* the latest reading of datetime.now()
    sle_calls,    \* set_last_exception calls made on ctx so far
    sle_sigs,     \* the signatures those calls passed
    handles,      \* names of the files the process holds open
    model,        \* the certificate model (the subject) the tasks act on
    previous,     \* how the Task State that ctx replaced had ended
    workers       \* the Task States run by concurrent workers

\* what the operations on the one Task State ctx leave alone
elsewhere == <<model, previous, workers>>

vars == <<ctx, rescheduled, emitted, call, trace_files, clock,
          sle_calls, sle_sigs, handles, model, previous, workers>>

\* the record kept of an operation: the class raised in the with-block
\* and its str() where the handler reads it, the class the operation lets
\* out, the count set_last_exception returned, the delays passed to
\* reschedule, the fate and name of the trace file, the fate of os.remove
Call(op, raised, msg, propagates, err_count, reschedules, io, trace_file, remove) ==
    [op |-> op, raised |-> raised, msg |-> msg, propagates |-> propagates,
     err_count |-> err_count, reschedules |-> reschedules, io |-> io,
     trace_file |-> trace_file, remove |-> remove]

Init ==
    /\ ctx = NewContext
    /\ rescheduled = <<>>
    /\ emitted = <<>>
    /\ call = Call("", "", "", "", 0, <<>>, "", "", "")
    /\ trace_files = <<>>
    /\ clock = 0
    /\ sle_calls = 0
    /\ sle_sigs = {}
    /\ handles = {}
    /\ model = CertModel
    /\ previous = NoPrevious
    /\ workers = [w \in Workers |-> IdleWorker]

\* mutant: a run without failure clears the failure record
BlockSucceeds_resets ==
    /\ ctx' = [ctx EXCEPT !.last_exception = None,
                          !.last_exception_count = 0]
    /\ emitted' = <<>>
    /\ call' = Call("ocsp_except_handle", "", "", "", 0, <<>>, "", "", "")
    /\ UNCHANGED <<rescheduled, trace_files, clock, sle_calls, sle_sigs>>
    /\ UNCHANGED <<handles, elsewhere>>

\* with ocsp_except_handle(ctx): the block raises nothing
BlockSucceeds ==
    /\ emitted' = <<>>
    /\ call' = Call("ocsp_except_handle", "", "", "", 0, <<>>, "", "", "")
    /\ UNCHANGED <<ctx, rescheduled, trace_files, clock, sle_calls, sle_sigs>>
    /\ UNCHANGED <<handles, elsewhere>>

\* the block raises a CertFileAccessError whose str() is msg
RaisesAccessError(cls, msg) ==
    /\ ExceptClauses[Dispatch(cls)].body = "backoff"
    /\ sle_calls < MaxCalls
    /\ LET e == except_CertFileAccessError(ctx, [cls |-> cls, msg |-> msg])
       IN  /\ ctx' = e.ctx
           /\ rescheduled' = rescheduled \o e.reschedules
           /\ emitted' = e.log
           /\ call' = Call("ocsp_except_handle", cls, msg, e.propagates,
                           e.ctx.last_exception_count, e.reschedules,
                           "", "", "")
    /\ sle_calls' = sle_calls + 1
    /\ sle_sigs' = sle_sigs \cup {msg}
    /\ UNCHANGED <<trace_files, clock, handles, elsewhere>>

\* the block raises an exception handled by a clause that only logs
RaisesLogged(cls) ==
    /\ ExceptClauses[Dispatch(cls)].body = "log"
    /\ LET e == LogClause(ctx, ExceptClauses[Dispatch(cls)])
       IN  /\ ctx' = e.ctx
           /\ rescheduled' = rescheduled \o e.reschedules
           /\ emitted' = e.log
           /\ call' = Call("ocsp_except_handle", cls, "", e.propagates, 0,
                           e.reschedules, "", "", "")
    /\ UNCHANGED <<trace_files, clock, sle_calls, sle_sigs>>
    /\ UNCHANGED <<handles, elsewhere>>

\* the block raises an exception only "except Exception" catches; now is
\* the clock reading and io the fate of the trace write
RaisesUnclassified(cls, now, io) ==
    /\ ExceptClauses[Dispatch(cls)].body = "dump"
    /\ LET d == dump_stack_trace(trace_files, now, io)
       IN  /\ trace_files' = d.files
           /\ emitted' = d.log
           /\ call' = Call("ocsp_except_handle", cls, "", d.propagates, 0,
                           <<>>, io, d.trace_file, "")
           /\ handles' = handles \cup d.open_handles
    /\ clock' = now
    /\ UNCHANGED <<ctx, rescheduled, sle_calls, sle_sigs, elsewhere>>

\* delete_ocsp_for_context(ctx), with the fate of os.remove
DeleteOcsp(remove) ==
    LET d == delete_ocsp_for_context(remove)
    IN  /\ emitted' = d.log
        /\ call' = Call("delete_ocsp_for_context", "", "", d.propagates, 0,
                        <<>>, "", "", remove)
        /\ UNCHANGED <<ctx, rescheduled, trace_files, clock,
                       sle_calls, sle_sigs, handles, elsewhere>>

\* the clock readings a call can see: time does not run backwards and
\* two readings can fall in the same microsecond
Readings == {t \in {clock, clock + 1} : t <= MaxClock}

Next ==
    \/ BlockSucceeds
    \/ \E cls \in Raisable, msg \in Signatures : RaisesAccessError(cls, msg)
    \/ \E cls \in Raisable : RaisesLogged(cls)
    \/ \E cls \in Raisable, now \in Readings, io \in WriteOutcomes :
          RaisesUnclassified(cls, now, io)
    \/ \E remove \in RemoveOutcomes : DeleteOcsp(remove)

Spec == Init /\ [][Next]_vars

\* ------------------------------------------------- Task State lifecycle
\* mutant: the failure record is kept in class attributes, which every
\* Task State shares, so a new one starts from the record of the last
OCSPTaskContext_class_attributes(subject) ==
    [NewContext EXCEPT !.last_exception = ctx.last_exception,
                       !.last_exception_count = ctx.last_exception_count]

\* OCSPTaskContext(task_name, model): __init__ sets the failure record of
\* the new instance and keeps a reference to the subject; it reads nothing
\* of any earlier instance
OCSPTaskContext(subject) == NewContext

\* the scheduler drops the Task State of the subject (it gave up, or its
\* task ended on a failure) and a new one is constructed for the same
\* subject; previous remembers how the dropped one had ended
CreateTask ==
    /\ ctx' = OCSPTaskContext(model)
    /\ previous' =
          [dropped |-> TRUE,
           gave_up |-> ctx.last_exception_count >= 7,
           unclassified |-> /\ call.raised \in Raisable
                            /\ ExceptClauses[Dispatch(call.raised)].body = "dump"]
    /\ rescheduled' = <<>>
    /\ emitted' = <<>>
    /\ call' = Call("OCSPTaskContext", "", "", "", 0, <<>>, "", "", "")
    /\ sle_calls' = 0
    /\ sle_sigs' = {}
    /\ UNCHANGED <<trace_files, clock, handles, model, workers>>

\* the failures of successive Task States of one subject
NextTasks ==
    \/ \E msg \in Signatures : RaisesAccessError("CertFileAccessError", msg)
    \/ \E now \in Readings : RaisesUnclassified("ValueError", now, "written")
    \/ CreateTask

SpecTasks == Init /\ [][NextTasks]_vars

\* --------------------------------------------------- concurrent workers
\* what a worker's run of the handler on its own Task State leaves alone
sequential == <<ctx, rescheduled, emitted, call, trace_files, clock,
                sle_calls, sle_sigs, handles, model, previous>>

\* the with-block of worker w raises a CertFileAccessError whose str() is
\* msg; the except clause binds exc and calls ctx.set_last_exception
WorkerRaises(w, msg) ==
    /\ workers[w].pc = "idle"
    /\ workers[w].failures < MaxFailures
    /\ LET e == except_CertFileAccessError(
                    workers[w].alone.ctx,
                    [cls |-> "CertFileAccessError", msg |-> msg])
       IN  workers' =
             [workers EXCEPT
                ![w].pc = "line 49",
                ![w].exc = Str(msg),
                ![w].failures = @ + 1,
                ![w].alone = [ctx |-> e.ctx,
                              rescheduled |-> @.rescheduled \o e.reschedules]]
    /\ UNCHANGED sequential

\* taskcontext.py line 49: the test of set_last_exception
WorkerTests(w) ==
    /\ workers[w].pc = "line 49"
    /\ LET last == GetAttr(workers, w, "last_exception")
           first == \/ ~Truthy(last)
                    \/ Is(NewObject(1, PyRepr(last)),
                          NewObject(2, PyRepr(workers[w].exc)))
       IN  workers' = [workers EXCEPT
                         ![w].pc = IF first THEN "line 50" ELSE "line 53"]
    /\ UNCHANGED sequential

\* line 50: self.last_exception = exc
WorkerRecords(w) ==
    /\ workers[w].pc = "line 50"
    /\ workers' =
          [SetAttr(workers, w, "last_exception", workers[w].exc)
             EXCEPT ![w].pc = "line 51"]
    /\ UNCHANGED sequential

\* line 51: self.last_exception_count = 1
WorkerCountsOne(w) ==
    /\ workers[w].pc = "line 51"
    /\ workers' =
          [SetAttr(workers, w, "last_exception_count", 1)
             EXCEPT ![w].pc = "line 54"]
    /\ UNCHANGED sequential

\* line 53: self.last_exception_count += 1
WorkerIncrements(w) ==
    /\ workers[w].pc = "line 53"
    /\ workers' =
          [SetAttr(workers, w, "last_exception_count",
                   GetAttr(workers, w, "last_exception_count") + 1)
             EXCEPT ![w].pc = "line 54"]
    /\ UNCHANGED sequential

\* line 54: return self.last_exception_count, bound to err_count
WorkerReturns(w) ==
    /\ workers[w].pc = "line 54"
    /\ workers' =
          [workers EXCEPT
             ![w].err_count = GetAttr(workers, w, "last_exception_count"),
             ![w].pc = "line 62"]
    /\ UNCHANGED sequential

\* excepthandler.py lines 62-68: the backoff policy on err_count;
\* ctx.reschedule replaces sched_time of the worker's own Task State
WorkerBacksOff(w) ==
    /\ workers[w].pc = "line 62"
    /\ LET err_count == workers[w].err_count
           delay == IF err_count < 4 THEN 60 * err_count
                                     ELSE err_count * 3600
       IN  workers' =
             IF err_count < 7
             THEN [SetAttr(workers, w, "sched_time", Num(delay))
                     EXCEPT ![w].rescheduled = Append(@, delay),
                            ![w].pc = "idle"]
             ELSE [workers EXCEPT ![w].pc = "idle"]
    /\ UNCHANGED sequential

\* two workers, each running the handler on its own Task State, one
\* statement at a time in any interleaving
NextWorkers ==
    \E w \in Workers :
        \/ \E msg \in Signatures : WorkerRaises(w, msg)
        \/ WorkerTests(w)
        \/ WorkerRecords(w)
        \/ WorkerCountsOne(w)
        \/ WorkerIncrements(w)
        \/ WorkerReturns(w)
        \/ WorkerBacksOff(w)

SpecWorkers == Init /\ [][NextWorkers]_vars

\* ---------------------------------------------------------------- claims
\* the latest operation was a run of the handler
Handled == call.op = "ocsp_except_handle"

\* the handler ran on a resource-access failure
HandledAccessError == Handled /\ call.raised = "CertFileAccessError"

\* the classes of the classified kinds other than resource-access, and of
\* the unclassified kind
LoggedKinds == {c \in Raisable : ExceptClauses[Dispatch(c)].body = "log"}
UnclassifiedKinds == {c \in Raisable : ExceptClauses[Dispatch(c)].body = "dump"}
HandledLogged == Handled /\ call.raised \in LoggedKinds
HandledUnclassified == Handled /\ call.raised \in UnclassifiedKinds

\* C1 (as claimed): whatever the with-block raises, and when it raises
\* nothing, ocsp_except_handle returns normally: no exception leaves it.
C1_NeverPropagates == Handled => call.propagates = ""

\* the reschedule delays of the end-to-end backoff scenario
BackoffDelays == <<60, 120, 180, 14400, 18000, 21600>>

\* C2 (as claimed): once a fresh Task State has seen 6, 7 or 8 consecutive
\* resource-access failures that all carry one signature, the reschedule
\* calls observed are exactly 60, 120, 180, 14400, 18000, 21600 (so the
\* 7th and 8th occurrences add none).
C2_BackoffSequence ==
    (sle_calls \in 6..8 /\ Cardinality(sle_sigs) = 1)
        => rescheduled = BackoffDelays

\* C3 (as claimed): a set_last_exception call whose signature differs from
\* the recorded one resets the counter to 1, returns 1 and records the new
\* signature.
C3_DifferentSignatureResets ==
    [][(/\ sle_calls' = sle_calls + 1
        /\ ctx.last_exception # None
        /\ ctx.last_exception # Str(call'.msg))
          => (/\ ctx'.last_exception_count = 1
              /\ call'.err_count = 1
              /\ ctx'.last_exception = Str(call'.msg))]_vars

\* C4 (as claimed): on a fresh Task State the k-th consecutive call with
\* one and the same signature returns k, for every signature.
C4_CountsIdentical ==
    (HandledAccessError /\ Cardinality(sle_sigs) = 1)
        => call.err_count = sle_calls

\* C5: a run of the handler on a classified failure other than
\* resource-access passes nothing to reschedule and leaves the Task State
\* (last_exception, last_exception_count, sched_time) as it was.
C5_LoggedKindsLeaveState ==
    [][(call'.op = "ocsp_except_handle" /\ call'.raised \in LoggedKinds)
          => (/\ ctx' = ctx
              /\ rescheduled' = rescheduled
              /\ call'.reschedules = <<>>)]_vars

\* C5 witness: such a failure was handled on a Task State that had counted
\* failures and been rescheduled before.
C5_Witness ==
    /\ HandledLogged
    /\ ctx.last_exception_count >= 2
    /\ ctx.sched_time # None
    /\ Len(rescheduled) >= 2

\* this run of dump_stack_trace created (or truncated) its trace file
TraceCreated ==
    call.io \in {"written", "write raises OSError"}
        /\ call.trace_file \in DOMAIN trace_files

\* this run logged that the trace could not be written
WriteFailureLogged ==
    \E i \in 1..Len(emitted) :
        /\ emitted[i].level = "critical"
        /\ emitted[i].text = "Couldn't dump stack trace to: %s reason: %s"

TableSeverity(cls) ==
    IF cls \in {"OCSPBadResponse", "urllib.error.URLError",
                "urllib.error.HTTPError"} THEN "error"
    ELSE IF cls \in {"OCSPRenewError", "RenewalRequirementMissing",
                     "CertValidationError", "CertParsingError"}
    THEN "critical"
    ELSE "warning"

\* C7 (as claimed): for a classified failure other than resource-access
\* the handler emits exactly one record, at the severity of the table,
\* and writes no trace file.
C7_OneRecordAtTableSeverity ==
    HandledLogged
        => (/\ Len(emitted) = 1
            /\ emitted[1].level = TableSeverity(call.raised)
            /\ call.io = "")

\* C8: whenever a signature is recorded the counter is at least 1, and
\* every set_last_exception call returns an integer >= 1 without raising.
C8_CountAtLeastOne ==
    /\ ctx.last_exception # None => ctx.last_exception_count >= 1
    /\ HandledAccessError => (call.err_count >= 1 /\ call.propagates = "")

\* C8 witness: the call was made with the empty signature on a state that
\* already records the empty signature.
C8_Witness ==
    /\ HandledAccessError
    /\ call.msg = ""
    /\ ctx.last_exception = Str("")
    /\ sle_calls >= 2

\* C9: the records of a resource-access failure follow from the returned
\* count alone: one error record for 1..3, none for 4..6, one critical
\* "giving up" record from 7 on.
C9_LogByCount ==
    HandledAccessError
        => (/\ call.err_count >= 1
            /\ call.err_count \in 1..3
                 => (Len(emitted) = 1 /\ emitted[1].level = "error")
            /\ call.err_count \in 4..6 => emitted = <<>>
            /\ call.err_count >= 7
                 => (/\ Len(emitted) = 1
                     /\ emitted[1].level = "critical"
                     /\ emitted[1].text = "exc, giving up.."))

\* C9 witness: an occurrence past the first give-up (count 8) logged the
\* critical record.
C9_Witness ==
    /\ HandledAccessError
    /\ call.err_count = 8
    /\ Len(emitted) = 1
    /\ emitted[1].level = "critical"

\* delete_ocsp_for_context ran and os.remove failed: the staple does not
\* exist or cannot be removed
DeleteFailed ==
    /\ call.op = "delete_ocsp_for_context"
    /\ call.remove \in {"FileNotFoundError", "PermissionError"}

\* C10 (as claimed): deleting a staple that is missing or unremovable
\* returns normally and logs at debug level only.
C10_DebugOnly ==
    DeleteFailed
        => (/\ call.propagates = ""
            /\ Len(emitted) >= 1
            /\ \A i \in 1..Len(emitted) : emitted[i].level = "debug")

\* C10 (amended): deleting a staple that is missing or unremovable returns
\* normally and logs the info-level announcement followed by one
\* debug-level record, nothing at warning level or above.
C10_InfoThenDebug ==
    DeleteFailed
        => (/\ call.propagates = ""
            /\ Len(emitted) = 2
            /\ emitted[1].level = "info"
            /\ emitted[2].level = "debug")

\* C10 witness: the staple did not exist and the debug record was logged.
C10_Witness ==
    /\ DeleteFailed
    /\ call.remove = "FileNotFoundError"
    /\ Len(emitted) = 2
    /\ emitted[2].level = "debug"

\* C11 (as claimed): under any unbounded sequence of resource-access
\* failures the handler eventually gives up. For this it is necessary
\* that no rescheduled resource-access failure leaves the Task State
\* exactly as it found it: from such a state the same failure can recur
\* for ever, rescheduled every time.
C11_EventuallyGivesUp ==
    [][(/\ call'.op = "ocsp_except_handle"
        /\ call'.raised = "CertFileAccessError"
        /\ sle_calls' = sle_calls + 1
        /\ call'.reschedules # <<>>)
          => ctx' # ctx]_vars

\* the classes a clause names that the raised class derives from
Matched(cls, i) == {c \in ExceptClauses[i].catches : IsSubclass(cls, c)}

\* the class was raised by a requests failure that has a row of its own
HasOwnRequestsRow(cls) ==
    \E c \in {"requests.Timeout", "requests.ConnectTimeout",
              "requests.ReadTimeout", "requests.TooManyRedirects",
              "requests.HTTPError"} : IsSubclass(cls, c)

\* C13: a raised failure is handled by exactly one clause, and it is a
\* most specific one: for every class any clause names that the failure
\* derives from, the handling clause names that class or a subclass of it
\* (so a connect or read timeout, a too-many-redirects and a bad HTTP
\* status never run the generic connection clause); the trace dump is
\* reached exactly by the failures no classified clause names.
C13_MostSpecificRow ==
    (Handled /\ call.raised # "")
        => LET cls == call.raised
               i == Dispatch(cls)
               n == Len(ExceptClauses)
           IN  /\ i \in 1..n
               /\ Matched(cls, i) # {}
               /\ \A j \in 1..n : \A d \in Matched(cls, j) :
                      \E c \in Matched(cls, i) : IsSubclass(c, d)
               /\ (call.io # "") = (\A j \in 1..(n - 1) : Matched(cls, j) = {})
               /\ HasOwnRequestsRow(cls)
                    => (/\ call.io = ""
                        /\ \A k \in 1..Len(emitted) :
                              emitted[k].text # "Connection error for %s: %s")

\* C13 witness: a connect timeout, which is both a timeout and a
\* connection failure, was handled.
C13_Witness ==
    /\ Handled
    /\ call.raised = "requests.ConnectTimeout"
    /\ Matched(call.raised, 6) # {}
    /\ Matched(call.raised, 9) # {}
    /\ Dispatch(call.raised) = 6

\* C14: every delay passed to ctx.reschedule is positive and is one of
\* 60, 120, 180, 14400, 18000, 21600, and so is the pending time it sets.
C14_DelaysPositive ==
    /\ \A k \in 1..Len(rescheduled) :
          /\ rescheduled[k] > 0
          /\ rescheduled[k] \in {60, 120, 180, 14400, 18000, 21600}
    /\ ctx.sched_time # None
          => (/\ ctx.sched_time.int > 0
              /\ ctx.sched_time.int \in {60, 120, 180, 14400, 18000, 21600})

\* C14 witness: all six delays have been passed, after failures of other
\* kinds and signatures.
C14_Witness ==
    /\ \A d \in {60, 120, 180, 14400, 18000, 21600} :
          \E k \in 1..Len(rescheduled) : rescheduled[k] = d
    /\ Cardinality(sle_sigs) >= 2
    /\ HandledLogged

C18_SuccessChangesNothing ==
    [][(call'.op = "ocsp_except_handle" /\ call'.raised = "")
          => (/\ ctx' = ctx
              /\ rescheduled' = rescheduled
              /\ call'.reschedules = <<>>
              /\ emitted' = <<>>
              /\ trace_files' = trace_files
              /\ call'.propagates = "")]_vars

\* C18 witness: a run without failure came after counted failures and
\* left the counter standing.
C18_Witness ==
    /\ Handled
    /\ call.raised = ""
    /\ ctx.last_exception # None
    /\ ctx.last_exception_count >= 2
    /\ emitted = <<>>

\* C12: when opening the trace file or writing the trace raises an
\* OSError, nothing leaves ocsp_except_handle, no file handle stays open,
\* exactly one record is logged, at critical level, with the text that
\* reports the write failure's own error, and nothing is rescheduled.
C12_WriteFailureAbsorbed ==
    [][(/\ call'.op = "ocsp_except_handle"
        /\ call'.raised \in UnclassifiedKinds
        /\ call'.io \in WriteOutcomes \ {"written"})
          => (/\ call'.propagates = ""
              /\ handles' = {}
              /\ Len(emitted') = 1
              /\ emitted'[1].level = "critical"
              /\ emitted'[1].text = "Couldn't dump stack trace to: %s reason: %s"
              /\ emitted'[1].rendered
              /\ call'.reschedules = <<>>
              /\ rescheduled' = rescheduled
              /\ ctx' = ctx)]_vars

\* C12 witness: after a Task State has been rescheduled, print_exc failed
\* on an opened trace file; the failure was logged and the handle closed.
C12_Witness ==
    /\ HandledUnclassified
    /\ call.io = "write raises OSError"
    /\ call.trace_file \in DOMAIN trace_files
    /\ call.propagates = ""
    /\ handles = {}
    /\ WriteFailureLogged
    /\ Len(rescheduled) >= 1

\* C17: a Task State newly constructed for a subject has no recorded
\* signature and a counter of 0, however the earlier Task States of the
\* subject ended; its first resource-access failure returns count 1 and is
\* rescheduled 60 seconds ahead; the subject is never modified.
C17_NewTaskStartsFresh ==
    /\ model = CertModel
    /\ sle_calls = 0
          => (/\ ctx.last_exception = None
              /\ ctx.last_exception_count = 0)
    /\ (HandledAccessError /\ sle_calls = 1)
          => (/\ call.err_count = 1
              /\ ctx.last_exception_count = 1
              /\ call.reschedules = <<60>>
              /\ rescheduled = <<60>>)

\* C17 witness: the earlier Task State had given up at count >= 7 and was
\* dropped after an unclassified failure; the new one has just handled its
\* first resource-access failure.
C17_Witness ==
    /\ previous.dropped
    /\ previous.gave_up
    /\ previous.unclassified
    /\ HandledAccessError
    /\ sle_calls = 1
    /\ call.err_count = 1
    /\ rescheduled = <<60>>

\* C16: with two workers running the handler on two distinct Task States
\* in any interleaving, whenever a worker is between two runs its Task
\* State and the delays it passed to reschedule are those the failures
\* raised for that Task State give on their own, and no step of one worker
\* changes the Task State or the delays of the other.
C16_OwnFailuresOnly ==
    /\ [](\A w \in Workers :
            workers[w].pc = "idle"
              => (/\ workers[w].ctx = workers[w].alone.ctx
                  /\ workers[w].rescheduled = workers[w].alone.rescheduled))
    /\ [][\A w \in Workers :
            workers'[w].pc # workers[w].pc
              => \A v \in Workers \ {w} :
                    /\ workers'[v].ctx = workers[v].ctx
                    /\ workers'[v].rescheduled = workers[v].rescheduled]_vars

\* C16 witness: both workers are inside set_last_exception at once, one
\* about to increment a counter that stands at 6, the other about to
\* restart its own after earlier failures.
C16_Witness ==
    /\ workers[1].pc = "line 53"
    /\ workers[1].ctx.last_exception_count = 6
    /\ workers[2].pc = "line 51"
    /\ workers[2].failures >= 2
    /\ workers[2].ctx.last_exception_count = 1

====
